---- MODULE Spec2Model ----
(***************************************************************************)
(* Roster builder of "Fall: A Game of Endings".                            *)
(*                                                                         *)
(* The repository holds two builds of the same page script:                *)
(*   variant "A"  src/unnamed/part_000  fourth type Champion, capped       *)
(*   variant "B"  src/app.js            fourth type Elite, weighted core   *)
(* The model carries the build as the variable `variant`, fixed at boot.   *)
(* Functions of the script are operators with the script's names; every    *)
(* event handler and every directly callable roster action is one action.  *)
(***************************************************************************)
EXTENDS Integers, Sequences, FiniteSets, TLC

VARIABLES
    variant,              \* which build of the script runs
    gameData,             \* "loaded" | "null" (data.json fetched or not)
    selectedFactionName,
    pointsLimit,
    rosterEntries,        \* sequence of [id, name, points, type]
    nextId,
    elStatusText,         \* DOM: status message
    elStatusDot,          \* DOM: status colour, "ok" | "warn" | "danger"
    elTotalPoints,        \* DOM: String(total)
    elRosterSummary,      \* DOM: "<total> / <limit>"
    elRosterList,         \* DOM: rows of the roster panel, in display order
    elUnitList,           \* DOM: rows of the unit panel (Add buttons)
    elUnitHelp,           \* DOM: help line of the unit panel
    pendingWrites,        \* clipboard writes in flight: sequence of texts
    copiesRequested,      \* number of copy requests so far (bounded)
    lastEvent,            \* the function or handler that ran last, and the text it
                          \* put on the clipboard
    maxIssued,            \* history: the highest id assigned since boot
    lastDeleted           \* history: the id deleteEntry removed last (0: none yet)

vars == <<variant, gameData, selectedFactionName, pointsLimit, rosterEntries,
          nextId, elStatusText, elStatusDot, elTotalPoints, elRosterSummary,
          elRosterList, elUnitList, elUnitHelp, pendingWrites, copiesRequested, lastEvent,
          maxIssued, lastDeleted>>

(***************************************************************************)
(* Bounds of the model.                                                    *)
(***************************************************************************)
\* addUnit is not taken once nextId exceeds MaxId (nextId++ is unbounded in JS)
MaxId == 2
\* number of copy requests in one run
MaxCopies == 1

(***************************************************************************)
(* External input: data.json (not part of the repository's sources).       *)
(* A unit without a type has type "" (falsy, as a missing field is).       *)
(***************************************************************************)
FourthType(v) == IF v = "A" THEN "Champion" ELSE "Elite"

Catalog(v) ==
    << [name |-> "Legion",
        units |-> << [name |-> "Warlord", points |-> 150, type |-> "Leader"],
                     [name |-> "Guard",   points |-> 150, type |-> "Core"],
                     [name |-> "Mage",    points |-> 50,  type |-> "Special"],
                     [name |-> "Hero",    points |-> 100, type |-> FourthType(v)],
                     [name |-> "Beast",   points |-> 50,  type |-> "Monster"] >>],
       [name |-> "Horde",
        units |-> << [name |-> "Guard",   points |-> 50,  type |-> ""] >>] >>

\* unit names addUnit is called with: every catalog name and one in no catalog
UnitNames == {"Warlord", "Guard", "Mage", "Hero", "Beast", "Nobody"}

\* a.name.localeCompare(b.name) on the names above
NameRank(n) ==
    CASE n = "Beast" -> 1 [] n = "Guard" -> 2 [] n = "Hero" -> 3
      [] n = "Mage" -> 4 [] n = "Nobody" -> 5 [] n = "Warlord" -> 6
      [] OTHER -> 7

localeCompare(a, b) == NameRank(a) - NameRank(b)

\* the options populatePointsDropdown builds: 200, 250, ..., 500
RECURSIVE LimitsFrom(_)
LimitsFrom(p) == IF p <= 500 THEN {p} \cup LimitsFrom(p + 50) ELSE {}

PointsOptions == LimitsFrom(200)

\* the options the user picks in the model
LimitChoices == {p \in PointsOptions : p <= 300}

(***************************************************************************)
(* Small helpers.                                                          *)
(***************************************************************************)
RECURSIVE Join(_, _)
\* Array.prototype.join(sep) on an array of strings
Join(parts, sep) ==
    IF Len(parts) = 0 THEN ""
    ELSE IF Len(parts) = 1 THEN parts[1]
    ELSE parts[1] \o sep \o Join(Tail(parts), sep)

Max(a, b) == IF a >= b THEN a ELSE b

\* the value null (a record, so that it compares with unit and faction records)
Null == [null |-> TRUE]

\* s.find((x) => x.name === name) || null: the first element of that name
findByName(s, name) ==
    IF \E i \in 1..Len(s) : s[i].name = name
    THEN s[CHOOSE i \in 1..Len(s) :
               s[i].name = name /\ \A j \in 1..(i - 1) : s[j].name # name]
    ELSE Null

(***************************************************************************)
(* Type ordering.                                                          *)
(***************************************************************************)
TYPE_ORDER == <<"Leader", "Core", "Special", FourthType(variant)>>

\* TYPE_ORDER_MAP.get(t) ?? 999
TypeRank(t) ==
    IF \E i \in 1..Len(TYPE_ORDER) : TYPE_ORDER[i] = t
    THEN (CHOOSE i \in 1..Len(TYPE_ORDER) : TYPE_ORDER[i] = t) - 1
    ELSE 999

\* comparator of renderRoster / copyRosterToClipboard
compareEntries(a, b) ==
    LET ta == TypeRank(a.type)
        tb == TypeRank(b.type)
    IN  IF ta # tb THEN ta - tb ELSE a.id - b.id

\* comparator of renderUnits
compareUnits(a, b) ==
    LET ta == TypeRank(a.type)
        tb == TypeRank(b.type)
    IN  IF ta # tb THEN ta - tb ELSE localeCompare(a.name, b.name)

\* x put into the sorted s before the first element that compares greater
RECURSIVE InsertEntry(_, _)
InsertEntry(s, x) ==
    IF Len(s) = 0 THEN <<x>>
    ELSE IF compareEntries(Head(s), x) > 0 THEN <<x>> \o s
    ELSE <<Head(s)>> \o InsertEntry(Tail(s), x)

RECURSIVE sortEntries(_)
\* [...rosterEntries].sort(comparator): a stable sort
sortEntries(s) ==
    IF Len(s) = 0 THEN <<>>
    ELSE InsertEntry(sortEntries(SubSeq(s, 1, Len(s) - 1)), s[Len(s)])

RECURSIVE InsertUnit(_, _)
InsertUnit(s, x) ==
    IF Len(s) = 0 THEN <<x>>
    ELSE IF compareUnits(Head(s), x) > 0 THEN <<x>> \o s
    ELSE <<Head(s)>> \o InsertUnit(Tail(s), x)

RECURSIVE sortUnits(_)
sortUnits(s) ==
    IF Len(s) = 0 THEN <<>>
    ELSE InsertUnit(sortUnits(SubSeq(s, 1, Len(s) - 1)), s[Len(s)])

(***************************************************************************)
(* Helpers of the script.                                                  *)
(***************************************************************************)
\* gd, sel: the values of gameData and selectedFactionName the call reads
getSelectedFaction(gd, sel) ==
    IF gd = "null" THEN Null
    ELSE findByName(Catalog(variant), sel)

\* a slip: the unit is looked up in every faction of the catalog
findUnitInSelectedFaction_anyFaction(gd, sel, unitName) ==
    IF gd = "null" THEN Null
    ELSE findByName(Catalog(variant)[1].units \o Catalog(variant)[2].units, unitName)

findUnitInSelectedFaction(gd, sel, unitName) ==
    LET faction == getSelectedFaction(gd, sel)
    IN  IF faction = Null THEN Null
        ELSE findByName(faction.units, unitName)

\* a slip in the loop of getRosterTotal: the first entry is skipped
getRosterTotal_skipFirst(entries) ==
    IF Len(entries) <= 1 THEN 0
    ELSE entries[2].points
             + (IF Len(entries) > 2 THEN entries[3].points ELSE 0)
             + (IF Len(entries) > 3 THEN entries[4].points ELSE 0)

RECURSIVE SumPoints(_)
SumPoints(s) == IF Len(s) = 0 THEN 0 ELSE s[1].points + SumPoints(Tail(s))

getRosterTotal(entries) == SumPoints(entries)

\* a slip in the tally loop: an entry of any other type is counted as Core
\* (as addUnit does for a unit without a type)
Tally_otherAsCore(entries, t4, acc) ==
    LET n(t) == Cardinality({i \in 1..Len(entries) : entries[i].type = t})
    IN  [leaders |-> acc.leaders + n("Leader"),
         special |-> acc.special + n("Special"),
         fourth  |-> acc.fourth + n(t4),
         core    |-> acc.core + Len(entries) - n("Leader") - n("Special") - n(t4)]

\* the tally loop of computeForceComp, fourth type t4: an if / else-if chain,
\* an entry of any other type changes no count
RECURSIVE Tally(_, _, _)
Tally(entries, t4, acc) ==
    IF Len(entries) = 0 THEN acc
    ELSE LET t == entries[1].type
             step == IF t = "Leader" THEN [acc EXCEPT !.leaders = @ + 1]
                     ELSE IF t = "Core" THEN [acc EXCEPT !.core = @ + 1]
                     ELSE IF t = "Special" THEN [acc EXCEPT !.special = @ + 1]
                     ELSE IF t = t4 THEN [acc EXCEPT !.fourth = @ + 1]
                     ELSE acc
         IN  Tally(Tail(entries), t4, step)

ZeroTally == [leaders |-> 0, core |-> 0, special |-> 0, fourth |-> 0]

\* computeForceComp of part_000 (fourth type Champion, requiredCore = special)
computeForceCompA(entries) ==
    LET c == Tally(entries, "Champion", ZeroTally)
    IN  [leaders |-> c.leaders, core |-> c.core, special |-> c.special,
         fourth |-> c.fourth, requiredCore |-> c.special]

\* a slip in the weighted rule: an Elite is weighed as a Special is
computeForceCompB_eliteWeightOne(entries) ==
    LET c == Tally(entries, "Elite", ZeroTally)
    IN  [leaders |-> c.leaders, core |-> c.core, special |-> c.special,
         fourth |-> c.fourth, requiredCore |-> c.special + c.fourth]

\* computeForceComp of app.js (fourth type Elite, requiredCore = special + 2*elite)
computeForceCompB(entries) ==
    LET c == Tally(entries, "Elite", ZeroTally)
    IN  [leaders |-> c.leaders, core |-> c.core, special |-> c.special,
         fourth |-> c.fourth, requiredCore |-> c.special + 2 * c.fourth]

computeForceComp(entries) ==
    IF variant = "A" THEN computeForceCompA(entries)
    ELSE computeForceCompB(entries)

\* Math.floor(Number(limit) / 250)
getChampionCap(limit) == limit \div 250

(***************************************************************************)
(* Status.  Texts are the script's template literals; the characters       *)
(* outside ASCII in them are written "--" (em dash), "|" (middle dot),     *)
(* ">=" and "floor(..)".                                                   *)
(***************************************************************************)
\* setStatus(message, type): the text and the colour of the dot
setStatus(message, type) ==
    [text |-> message,
     dot  |-> IF type = "danger" THEN "danger"
              ELSE IF type = "warn" THEN "warn" ELSE "ok"]

LeadersProblem(comp) ==
    "Leaders: need exactly 1 (you have " \o ToString(comp.leaders) \o ")."

CoreProblem(comp) ==
    "Core: need at least " \o ToString(comp.requiredCore)
        \o " (you have " \o ToString(comp.core) \o ")."

ChampionsProblem(comp, limit) ==
    "Champions: max " \o ToString(getChampionCap(limit)) \o " at "
        \o ToString(limit) \o " pts (you have " \o ToString(comp.fourth) \o ")."

\* a slip in the cap test (>= for >): a roster at the cap is reported too
compProblemsA_capInclusive(comp, limit) ==
    (IF comp.leaders # 1 THEN <<LeadersProblem(comp)>> ELSE <<>>)
    \o (IF comp.core < comp.requiredCore THEN <<CoreProblem(comp)>> ELSE <<>>)
    \o (IF comp.fourth >= getChampionCap(limit)
        THEN <<ChampionsProblem(comp, limit)>> ELSE <<>>)

\* compProblems of renderRoster, part_000
compProblemsA(comp, limit) ==
    (IF comp.leaders # 1 THEN <<LeadersProblem(comp)>> ELSE <<>>)
    \o (IF comp.core < comp.requiredCore THEN <<CoreProblem(comp)>> ELSE <<>>)
    \o (IF comp.fourth > getChampionCap(limit)
        THEN <<ChampionsProblem(comp, limit)>> ELSE <<>>)

\* compProblems of renderRoster, app.js
compProblemsB(comp, limit) ==
    (IF comp.leaders # 1 THEN <<LeadersProblem(comp)>> ELSE <<>>)
    \o (IF comp.core < comp.requiredCore THEN <<CoreProblem(comp)>> ELSE <<>>)

\* a slip in the Leaders test: only a roster without a Leader is reported
compProblems_leaderMissingOnly(comp, limit) ==
    (IF comp.leaders = 0 THEN <<LeadersProblem(comp)>> ELSE <<>>)
    \o (IF comp.core < comp.requiredCore THEN <<CoreProblem(comp)>> ELSE <<>>)
    \o (IF variant = "A" /\ comp.fourth > getChampionCap(limit)
        THEN <<ChampionsProblem(comp, limit)>> ELSE <<>>)

compProblems(comp, limit) ==
    IF variant = "A" THEN compProblemsA(comp, limit)
    ELSE compProblemsB(comp, limit)

\* a slip in the order of the tests: the composition is looked at before the
\* points and before the empty roster
classifyStatus_compFirst(total, limit, problems) ==
    IF Len(problems) # 0
    THEN setStatus(ToString(Max(0, limit - total)) \o " pts remaining. "
                       \o Join(problems, " "), "warn")
    ELSE IF total = 0 THEN setStatus("Ready.", "ok")
    ELSE IF total > limit
    THEN setStatus("Over by " \o ToString(Max(0, total - limit)) \o " pts.", "danger")
    ELSE setStatus("Legal: exact points and legal force composition.", "ok")

\* the status part of renderRoster: total, limit and the problems to a status
classifyStatus(total, limit, problems) ==
    LET over      == Max(0, total - limit)
        remaining == Max(0, limit - total)
        pointsOk  == total <= limit
        compOk    == Len(problems) = 0
    IN  IF total = 0 THEN setStatus("Ready.", "ok")
        ELSE IF ~pointsOk /\ ~compOk
        THEN setStatus("Over by " \o ToString(over) \o " pts. "
                           \o Join(problems, " "), "danger")
        ELSE IF ~pointsOk
        THEN setStatus("Over by " \o ToString(over) \o " pts.", "danger")
        ELSE IF ~compOk
        THEN setStatus(ToString(remaining) \o " pts remaining. "
                           \o Join(problems, " "), "warn")
        ELSE IF total = limit
        THEN setStatus("Legal: exact points and legal force composition.", "ok")
        ELSE IF variant = "A"
        THEN setStatus(ToString(remaining) \o " pts remaining. Legal so far.", "ok")
        ELSE setStatus(ToString(remaining)
                           \o " pts remaining. Force composition legal so far.", "ok")

\* the status renderRoster sets for a roster and a limit
rosterStatus(entries, limit) ==
    classifyStatus(getRosterTotal(entries), limit,
                   compProblems(computeForceComp(entries), limit))

(***************************************************************************)
(* Rendering.  A DOM list is the sequence of its rows; a row holds the     *)
(* texts shown and the attribute of its button.                            *)
(***************************************************************************)
NoUnitsRow == [title |-> "No units yet", meta |-> "Add units from the left panel."]

rosterRow(it) ==
    [title |-> it.name,
     meta  |-> it.type \o " | " \o ToString(it.points) \o " pts",
     del   |-> it.id]

\* the rows renderRoster writes to elRosterList
rosterRows(entries) ==
    LET ordered == sortEntries(entries)
    IN  IF Len(ordered) = 0 THEN <<NoUnitsRow>>
        ELSE [i \in 1..Len(ordered) |-> rosterRow(ordered[i])]

\* one row of renderUnits, part_000: a Champion's button is disabled at the cap
unitRowA(u, entries, limit) ==
    LET maxChampions   == getChampionCap(limit)
        championsAtCap == computeForceCompA(entries).fourth >= maxChampions
        isChampion     == u.type = "Champion"
        disabled       == IF isChampion /\ maxChampions = 0 THEN TRUE
                          ELSE isChampion /\ championsAtCap
        reason         == IF disabled /\ isChampion
                          THEN IF maxChampions = 0
                               THEN " (0 allowed at " \o ToString(limit) \o ")"
                               ELSE " (cap " \o ToString(maxChampions) \o ")"
                          ELSE ""
    IN  [title |-> u.name,
         meta  |-> u.type \o " | " \o ToString(u.points) \o " pts" \o reason,
         add   |-> u.name,
         disabled |-> disabled]

\* one row of renderUnits, app.js
unitRowB(u) ==
    [title |-> u.name,
     meta  |-> u.type \o " | " \o ToString(u.points) \o " pts",
     add   |-> u.name,
     disabled |-> FALSE]

\* the rows renderUnits writes to elUnitList
unitRows(gd, sel, entries, limit) ==
    LET faction == getSelectedFaction(gd, sel)
    IN  IF faction = Null THEN <<>>
        ELSE LET units == sortUnits(faction.units)
             IN  [i \in 1..Len(units) |->
                     IF variant = "A" THEN unitRowA(units[i], entries, limit)
                     ELSE unitRowB(units[i])]

\* the text renderUnits writes to elUnitHelp
unitHelp(gd, sel, limit) ==
    IF getSelectedFaction(gd, sel) = Null THEN "Select a faction to see units."
    ELSE IF variant = "A"
    THEN "Rules: exactly 1 Leader | Core >= Special | Champions <= floor("
             \o ToString(limit) \o "/250) = " \o ToString(getChampionCap(limit)) \o "."
    ELSE "Click Add to include units in your roster. Force rules: exactly 1 Leader; Core must cover Special (1) and Elite (2)."

\* renderRoster() on a state whose roster is `entries` and limit is `limit`
renderRoster(entries, limit) ==
    LET total == getRosterTotal(entries)
        st    == rosterStatus(entries, limit)
    IN  /\ elRosterList' = rosterRows(entries)
        /\ elTotalPoints' = ToString(total)
        /\ elRosterSummary' = ToString(total) \o " / " \o ToString(limit)
        /\ elStatusText' = st.text
        /\ elStatusDot' = st.dot

\* renderUnits() on a state with these values
renderUnits(gd, sel, entries, limit) ==
    /\ elUnitList' = unitRows(gd, sel, entries, limit)
    /\ elUnitHelp' = unitHelp(gd, sel, limit)

\* the handlers of part_000 re-render the unit panel after each change of the
\* roster or the limit; those of app.js leave it as it is
renderUnitsIfA(gd, sel, entries, limit) ==
    IF variant = "A" THEN renderUnits(gd, sel, entries, limit)
    ELSE UNCHANGED <<elUnitList, elUnitHelp>>

(***************************************************************************)
(* Export text: the array `lines` of copyRosterToClipboard, before join.   *)
(***************************************************************************)
forceCompLine(comp, limit) ==
    IF variant = "A"
    THEN "Force Comp: Leaders " \o ToString(comp.leaders) \o "/1 | Core "
             \o ToString(comp.core) \o " (need >= " \o ToString(comp.requiredCore)
             \o ") | Special " \o ToString(comp.special) \o " | Champions "
             \o ToString(comp.fourth) \o "/" \o ToString(getChampionCap(limit))
    ELSE "Force Comp: Leaders " \o ToString(comp.leaders) \o "/1 | Core "
             \o ToString(comp.core) \o "/" \o ToString(comp.requiredCore)
             \o " (Special " \o ToString(comp.special) \o ", Elite "
             \o ToString(comp.fourth) \o ")"

entryLine(it, idx) ==
    ToString(idx + 1) \o ". [" \o it.type \o "] " \o it.name \o " -- "
        \o ToString(it.points)

\* a slip: the entries are listed in the order they were added
orderedForCopy_unsorted(entries) == entries

\* the order copyRosterToClipboard lists the entries in
orderedForCopy(entries) == sortEntries(entries)

rosterText(sel, entries, limit) ==
    LET faction == IF sel # "" THEN sel ELSE "Unknown faction"
        total   == getRosterTotal(entries)
        comp    == computeForceComp(entries)
        ordered == orderedForCopy(entries)
    IN  << "Fall: A Game of Endings -- Roster",
           "Faction: " \o faction,
           "Limit: " \o ToString(limit),
           "Total: " \o ToString(total),
           "",
           forceCompLine(comp, limit),
           "" >>
        \o (IF Len(ordered) = 0 THEN << "(No units)" >>
            ELSE [i \in 1..Len(ordered) |-> entryLine(ordered[i], i - 1)])

(***************************************************************************)
(* Roster actions.                                                         *)
(***************************************************************************)
Event(op, written) == [op |-> op, written |-> written]

Ids(entries) == {entries[i].id : i \in 1..Len(entries)}

\* the entry addUnit pushes for a catalog unit
newEntry(id, unit) ==
    [id     |-> id,
     name   |-> unit.name,
     points |-> unit.points,
     type   |-> IF unit.type # "" THEN unit.type ELSE "Core"]

\* a slip: the counter is read and not advanced
postIncrement_noAdvance(n) == [value |-> n, next |-> n]

\* nextId++ : the value used as the id, and the counter afterwards
postIncrement(n) == [value |-> n, next |-> n + 1]

\* a slip: the entry at position id is removed, not the entry whose id is id
withoutId_byPosition(entries, id) ==
    IF id \in 1..Len(entries)
    THEN SubSeq(entries, 1, id - 1) \o SubSeq(entries, id + 1, Len(entries))
    ELSE entries

\* rosterEntries.filter((e) => e.id !== id)
withoutId(entries, id) ==
    LET Keep(e) == e.id # id
    IN  SelectSeq(entries, Keep)

\* a slip: the roster is emptied and the counter left where it is
clearRoster_keepCounter == [rosterEntries |-> <<>>, nextId |-> nextId]

\* clearRoster(): the roster and the counter it leaves
clearRoster == [rosterEntries |-> <<>>, nextId |-> 1]

\* a slip: the check lets one Champion past the cap (> for >=)
championCapReached_offByOne(unit, entries, limit) ==
    /\ variant = "A"
    /\ unit.type = "Champion"
    /\ computeForceCompA(entries).fourth > getChampionCap(limit)

\* the add-time check of part_000: a Champion at the cap is not added
championCapReached(unit, entries, limit) ==
    /\ variant = "A"
    /\ unit.type = "Champion"
    /\ computeForceCompA(entries).fourth >= getChampionCap(limit)

capStatus(limit) ==
    setStatus("Champion cap reached (" \o ToString(getChampionCap(limit))
                  \o " max at " \o ToString(limit) \o " pts).", "warn")

\* addUnit(unitName), called by an Add button or directly
addUnit(unitName) ==
    LET unit == findUnitInSelectedFaction(gameData, selectedFactionName, unitName)
    IN  /\ lastEvent' = Event("addUnit", <<>>)
        /\ IF unit = Null
           THEN UNCHANGED <<rosterEntries, nextId, elStatusText, elStatusDot,
                            elTotalPoints, elRosterSummary, elRosterList,
                            elUnitList, elUnitHelp>>
           ELSE IF championCapReached(unit, rosterEntries, pointsLimit)
           THEN /\ elStatusText' = capStatus(pointsLimit).text
                /\ elStatusDot' = capStatus(pointsLimit).dot
                /\ UNCHANGED <<rosterEntries, nextId, elTotalPoints,
                               elRosterSummary, elRosterList, elUnitList,
                               elUnitHelp>>
           ELSE LET inc     == postIncrement(nextId)
                    entries == Append(rosterEntries, newEntry(inc.value, unit))
                IN  /\ nextId <= MaxId
                    /\ rosterEntries' = entries
                    /\ nextId' = inc.next
                    /\ renderRoster(entries, pointsLimit)
                    /\ renderUnitsIfA(gameData, selectedFactionName, entries, pointsLimit)
        /\ UNCHANGED <<variant, gameData, selectedFactionName, pointsLimit,
                       pendingWrites, copiesRequested>>

\* a slip: the entry is filtered out and the panels are not rendered again
deleteEntry_noRender(id) ==
    /\ lastEvent' = Event("deleteEntry", <<>>)
    /\ rosterEntries' = withoutId(rosterEntries, id)
    /\ UNCHANGED <<variant, gameData, selectedFactionName, pointsLimit, nextId,
                   elStatusText, elStatusDot, elTotalPoints, elRosterSummary,
                   elRosterList, elUnitList, elUnitHelp, pendingWrites,
                   copiesRequested>>

\* deleteEntry(id), called by a Delete button or directly
deleteEntry(id) ==
    LET entries == withoutId(rosterEntries, id)
    IN  /\ lastEvent' = Event("deleteEntry", <<>>)
        /\ rosterEntries' = entries
        /\ renderRoster(entries, pointsLimit)
        /\ renderUnitsIfA(gameData, selectedFactionName, entries, pointsLimit)
        /\ UNCHANGED <<variant, gameData, selectedFactionName, pointsLimit,
                       nextId, pendingWrites, copiesRequested>>

(***************************************************************************)
(* Event handlers bound by bindEvents (only after data.json has loaded).   *)
(***************************************************************************)
\* a slip: a roster the new limit does not hold is emptied
limitChange_dropOverLimit(p) ==
    LET entries == IF getRosterTotal(rosterEntries) > p THEN <<>> ELSE rosterEntries
    IN  /\ gameData = "loaded"
        /\ p # pointsLimit
        /\ lastEvent' = Event("limitChange", <<>>)
        /\ pointsLimit' = p
        /\ rosterEntries' = entries
        /\ renderUnitsIfA(gameData, selectedFactionName, entries, p)
        /\ renderRoster(entries, p)
        /\ UNCHANGED <<variant, gameData, selectedFactionName, nextId,
                       pendingWrites, copiesRequested>>

\* elPointsLimit "change": the user picks another option
limitChange(p) ==
    /\ gameData = "loaded"
    /\ p # pointsLimit
    /\ lastEvent' = Event("limitChange", <<>>)
    /\ pointsLimit' = p
    /\ renderUnitsIfA(gameData, selectedFactionName, rosterEntries, p)
    /\ renderRoster(rosterEntries, p)
    /\ UNCHANGED <<variant, gameData, selectedFactionName, rosterEntries, nextId,
                   pendingWrites, copiesRequested>>

\* elFactionSelect "change": the user picks another faction
factionChange(f) ==
    /\ gameData = "loaded"
    /\ f # selectedFactionName
    /\ lastEvent' = Event("factionChange", <<>>)
    /\ selectedFactionName' = f
    /\ rosterEntries' = clearRoster.rosterEntries
    /\ nextId' = clearRoster.nextId
    /\ renderUnits(gameData, f, clearRoster.rosterEntries, pointsLimit)
    /\ renderRoster(clearRoster.rosterEntries, pointsLimit)
    /\ UNCHANGED <<variant, gameData, pointsLimit, pendingWrites,
                   copiesRequested>>

\* elClearBtn "click"
clearClick ==
    /\ gameData = "loaded"
    /\ lastEvent' = Event("clear", <<>>)
    /\ rosterEntries' = clearRoster.rosterEntries
    /\ nextId' = clearRoster.nextId
    /\ renderRoster(clearRoster.rosterEntries, pointsLimit)
    /\ renderUnitsIfA(gameData, selectedFactionName, clearRoster.rosterEntries,
                      pointsLimit)
    /\ UNCHANGED <<variant, gameData, selectedFactionName, pointsLimit,
                   pendingWrites, copiesRequested>>

(***************************************************************************)
(* copyRosterToClipboard: the text is built when the button is clicked;    *)
(* the function then awaits navigator.clipboard.writeText(text), and other *)
(* events run until the promise settles.                                   *)
(***************************************************************************)
RemoveAt(s, i) == SubSeq(s, 1, i - 1) \o SubSeq(s, i + 1, Len(s))

copiedStatus == setStatus("Copied roster to clipboard.", "ok")

fallbackStatus == setStatus("Copied roster to clipboard (fallback).", "ok")

\* elCopyBtn "click", up to the await
copyClick ==
    /\ gameData = "loaded"
    /\ copiesRequested < MaxCopies
    /\ copiesRequested' = copiesRequested + 1
    /\ lastEvent' = Event("copy", <<>>)
    /\ pendingWrites' = Append(pendingWrites,
           rosterText(selectedFactionName, rosterEntries, pointsLimit))
    /\ UNCHANGED <<variant, gameData, selectedFactionName, pointsLimit,
                   rosterEntries, nextId, elStatusText, elStatusDot,
                   elTotalPoints, elRosterSummary, elRosterList, elUnitList,
                   elUnitHelp>>

\* a slip: the text is built after the await, from the state as it is then
writeResolved_textAtCompletion(i) ==
    /\ i \in 1..Len(pendingWrites)
    /\ lastEvent' = Event("copied",
           rosterText(selectedFactionName, rosterEntries, pointsLimit))
    /\ pendingWrites' = RemoveAt(pendingWrites, i)
    /\ elStatusText' = copiedStatus.text
    /\ elStatusDot' = copiedStatus.dot
    /\ UNCHANGED <<variant, gameData, selectedFactionName, pointsLimit,
                   rosterEntries, nextId, elTotalPoints, elRosterSummary,
                   elRosterList, elUnitList, elUnitHelp, copiesRequested>>

\* the promise of writeText resolves: the text is on the clipboard
writeResolved(i) ==
    /\ i \in 1..Len(pendingWrites)
    /\ lastEvent' = Event("copied", pendingWrites[i])
    /\ pendingWrites' = RemoveAt(pendingWrites, i)
    /\ elStatusText' = copiedStatus.text
    /\ elStatusDot' = copiedStatus.dot
    /\ UNCHANGED <<variant, gameData, selectedFactionName, pointsLimit,
                   rosterEntries, nextId, elTotalPoints, elRosterSummary,
                   elRosterList, elUnitList, elUnitHelp, copiesRequested>>

\* a slip in the catch block: the failed write is reported as a failure
writeRejected_reportsFailure(i) ==
    /\ i \in 1..Len(pendingWrites)
    /\ lastEvent' = Event("copiedFallback", pendingWrites[i])
    /\ pendingWrites' = RemoveAt(pendingWrites, i)
    /\ elStatusText' = setStatus("Copy failed.", "warn").text
    /\ elStatusDot' = setStatus("Copy failed.", "warn").dot
    /\ UNCHANGED <<variant, gameData, selectedFactionName, pointsLimit,
                   rosterEntries, nextId, elTotalPoints, elRosterSummary,
                   elRosterList, elUnitList, elUnitHelp, copiesRequested>>

\* the promise rejects: the catch block copies the text through a textarea
writeRejected(i) ==
    /\ i \in 1..Len(pendingWrites)
    /\ lastEvent' = Event("copiedFallback", pendingWrites[i])
    /\ pendingWrites' = RemoveAt(pendingWrites, i)
    /\ elStatusText' = fallbackStatus.text
    /\ elStatusDot' = fallbackStatus.dot
    /\ UNCHANGED <<variant, gameData, selectedFactionName, pointsLimit,
                   rosterEntries, nextId, elTotalPoints, elRosterSummary,
                   elRosterList, elUnitList, elUnitHelp, copiesRequested>>

\* elCopyBtn "click" where navigator.clipboard is undefined: writeText throws
\* before the await and the catch block runs in the same task
copyClickNoClipboard ==
    /\ gameData = "loaded"
    /\ copiesRequested < MaxCopies
    /\ copiesRequested' = copiesRequested + 1
    /\ lastEvent' = Event("copiedFallbackSync", rosterText(selectedFactionName, rosterEntries, pointsLimit))
    /\ elStatusText' = fallbackStatus.text
    /\ elStatusDot' = fallbackStatus.dot
    /\ UNCHANGED <<variant, gameData, selectedFactionName, pointsLimit,
                   rosterEntries, nextId, elTotalPoints, elRosterSummary,
                   elRosterList, elUnitList, elUnitHelp, pendingWrites>>

(***************************************************************************)
(* Boot: init() has run.  Either data.json loaded, the dropdowns are       *)
(* filled, the handlers bound and both panels rendered; or the load failed *)
(* and init() returned before bindEvents, leaving the page's markup.       *)
(***************************************************************************)
Markup == "(markup)"

FactionNames == {Catalog(variant)[i].name : i \in 1..Len(Catalog(variant))}

InitLoaded ==
    LET sel == Catalog(variant)[1].name
        st  == rosterStatus(<<>>, 300)
    IN  /\ gameData = "loaded"
        /\ pointsLimit = 300
        /\ selectedFactionName = sel
        /\ elUnitList = unitRows("loaded", sel, <<>>, 300)
        /\ elUnitHelp = unitHelp("loaded", sel, 300)
        /\ elRosterList = rosterRows(<<>>)
        /\ elTotalPoints = ToString(getRosterTotal(<<>>))
        /\ elRosterSummary = ToString(getRosterTotal(<<>>)) \o " / " \o ToString(300)
        /\ elStatusText = st.text
        /\ elStatusDot = st.dot

InitFailed ==
    /\ gameData = "null"
    /\ pointsLimit = IF variant = "A" THEN 300 ELSE 200
    /\ selectedFactionName = ""
    /\ elUnitList = << [title |-> "Data load error", meta |-> Markup] >>
    /\ elUnitHelp = "Could not load data.json."
    /\ elRosterList = <<>>
    /\ elTotalPoints = Markup
    /\ elRosterSummary = Markup
    /\ elStatusText = Markup
    /\ elStatusDot = Markup

Init ==
    /\ variant \in {"A", "B"}
    /\ rosterEntries = <<>>
    /\ nextId = 1
    /\ pendingWrites = <<>>
    /\ copiesRequested = 0
    /\ lastEvent = Event("init", <<>>)
    /\ maxIssued = 0
    /\ lastDeleted = 0
    /\ (InitLoaded \/ InitFailed)

(***************************************************************************)
(* History variables, conjoined to the actions they record.                *)
(***************************************************************************)
\* addUnit has run: an id was assigned exactly when the counter moved
RecordIssued ==
    /\ maxIssued' = IF nextId' # nextId THEN Max(maxIssued, nextId) ELSE maxIssued
    /\ UNCHANGED lastDeleted

\* deleteEntry(id) has run
RecordDeleted(id) ==
    /\ lastDeleted' = IF id \in Ids(rosterEntries) THEN id ELSE lastDeleted
    /\ UNCHANGED maxIssued

NoRecord == UNCHANGED <<maxIssued, lastDeleted>>

(***************************************************************************)
(* Spec: the roster functions and the handlers of the two dropdowns and    *)
(* the Clear button, with the history recorded.                            *)
(***************************************************************************)
Next ==
    \/ \E unitName \in UnitNames : addUnit(unitName) /\ RecordIssued
    \/ \E id \in 1..(MaxId + 1) : deleteEntry(id) /\ RecordDeleted(id)
    \/ \E p \in LimitChoices : limitChange(p) /\ NoRecord
    \/ \E f \in FactionNames : factionChange(f) /\ NoRecord
    \/ clearClick /\ NoRecord

Spec == Init /\ [][Next]_vars

(***************************************************************************)
(* SpecCopy: the same with the Copy button and the clipboard write, the    *)
(* inputs drawn from smaller sets and the history not recorded.            *)
(***************************************************************************)
CopyUnitNames == UnitNames \ {"Mage"}

CopyLimitChoices == {p \in LimitChoices : p # 250}

NextCopy ==
    \/ \E unitName \in CopyUnitNames : addUnit(unitName) /\ NoRecord
    \/ \E id \in 1..(MaxId + 1) : deleteEntry(id) /\ NoRecord
    \/ \E p \in CopyLimitChoices : limitChange(p) /\ NoRecord
    \/ \E f \in FactionNames : factionChange(f) /\ NoRecord
    \/ clearClick /\ NoRecord
    \/ copyClick /\ NoRecord
    \/ \E i \in 1..MaxCopies : writeResolved(i) /\ NoRecord
    \/ \E i \in 1..MaxCopies : writeRejected(i) /\ NoRecord
    \/ copyClickNoClipboard /\ NoRecord

SpecCopy == Init /\ [][NextCopy]_vars

(***************************************************************************)
(* SpecCopyFair: SpecCopy where the promise of every clipboard write is    *)
(* settled at some time (the browser resolves or rejects it, and the       *)
(* continuation of the await then runs as a task of the event loop).       *)
(***************************************************************************)
CopySettles ==
    \E i \in 1..MaxCopies : (writeResolved(i) \/ writeRejected(i)) /\ NoRecord

SpecCopyFair == SpecCopy /\ WF_vars(CopySettles)

(***************************************************************************)
(* Definitions shared by the properties.                                   *)
(***************************************************************************)
IsReady == elStatusText = "Ready." /\ elStatusDot = "ok"

Total == getRosterTotal(rosterEntries)

Comp == computeForceComp(rosterEntries)

EntrySet == {rosterEntries[i] : i \in 1..Len(rosterEntries)}

RECURSIVE PointsOfSet(_)
\* the sum of the points of a set of entries
PointsOfSet(S) ==
    IF S = {} THEN 0
    ELSE LET e == CHOOSE x \in S : TRUE
         IN  e.points + PointsOfSet(S \ {e})

KnownTypes == {"Leader", "Core", "Special", FourthType(variant)}

NumberOfType(T) == Cardinality({i \in 1..Len(rosterEntries) : rosterEntries[i].type \in T})

\* the composition problems, from the rules of the two builds
HasCompProblem ==
    \/ NumberOfType({"Leader"}) # 1
    \/ variant = "A" /\ NumberOfType({"Core"}) < NumberOfType({"Special"})
    \/ variant = "B" /\ NumberOfType({"Core"})
                           < NumberOfType({"Special"}) + 2 * NumberOfType({"Elite"})
    \/ variant = "A" /\ NumberOfType({"Champion"}) > pointsLimit \div 250

(***************************************************************************)
(* C1: totalPoints() is the sum of the points of exactly the entries that  *)
(* are in the roster: each present entry (one per id) counted once,        *)
(* nothing else counted.                                                   *)
(***************************************************************************)
C1_TotalIsSumOfPresent ==
    /\ getRosterTotal(rosterEntries) = PointsOfSet(EntrySet)
    /\ Cardinality(EntrySet) = Len(rosterEntries)

\* entries were added and one was removed, and the roster still holds points
C1_Witness ==
    /\ lastEvent.op = "deleteEntry"
    /\ lastDeleted # 0
    /\ Len(rosterEntries) >= 1
    /\ Total > 0

(***************************************************************************)
(* C2 as stated: in every state (after load) the status shown is ok        *)
(* "Ready." exactly when the total is 0.                                   *)
(***************************************************************************)
C2_ReadyIffZero == gameData = "loaded" => (IsReady <=> Total = 0)

(***************************************************************************)
(* C2 amended: the status shown is "Ready." only when the total is 0, and  *)
(* after every event that changes the roster or the limit, and after every *)
(* delete, clear, limit change and faction change, it is "Ready." exactly  *)
(* when the total is 0.  (A finished copy and, in build A, a refused       *)
(* Champion show another status while the total is 0.)                     *)
(***************************************************************************)
C2_ReadyOnlyIfZero ==
    /\ [](IsReady => Total = 0)
    /\ [][(\/ rosterEntries' # rosterEntries
           \/ pointsLimit' # pointsLimit
           \/ lastEvent'.op \in {"deleteEntry", "clear", "limitChange",
                                  "factionChange"})
             => (IsReady' <=> Total' = 0)]_vars

\* the total is 0 and the status shown is that of a finished copy
C2_Witness ==
    /\ Total = 0
    /\ elStatusText = "Copied roster to clipboard."
    /\ lastEvent.op = "copied"

(***************************************************************************)
(* C3 as stated: every id addUnit assigns is greater than every id         *)
(* assigned before it since boot.                                          *)
(***************************************************************************)
C3_IdsNeverReused == [][nextId' > nextId => nextId > maxIssued]_vars

(***************************************************************************)
(* C3 amended: addUnit gives the new entry the current counter, which is   *)
(* greater than the id of every entry in the roster, and advances the      *)
(* counter by one; the counter goes down only when Clear or a faction      *)
(* change resets it to 1 and empties the roster, after which the ids       *)
(* 1, 2, ... are assigned again.                                           *)
(***************************************************************************)
C3_IdsIncreaseBetweenResets ==
    [][/\ Len(rosterEntries') > Len(rosterEntries) =>
            /\ nextId' = nextId + 1
            /\ rosterEntries'[Len(rosterEntries')].id = nextId
            /\ \A i \in 1..Len(rosterEntries) : rosterEntries[i].id < nextId
       /\ nextId' # nextId =>
            \/ nextId' = nextId + 1 /\ Len(rosterEntries') = Len(rosterEntries) + 1
            \/ /\ nextId' = 1
               /\ rosterEntries' = <<>>
               /\ lastEvent'.op \in {"clear", "factionChange"}]_vars

\* an id is assigned again after a reset: the entry just added has an id that
\* was assigned before
C3_Witness ==
    /\ lastEvent.op = "addUnit"
    /\ Len(rosterEntries) = 1
    /\ rosterEntries[1].id = 1
    /\ maxIssued >= 2

(***************************************************************************)
(* C4 as stated: the composition counts are non-negative and sum to the    *)
(* number of entries of the roster.                                        *)
(***************************************************************************)
C4_CountsSumToRosterSize ==
    /\ Comp.leaders >= 0 /\ Comp.core >= 0 /\ Comp.special >= 0 /\ Comp.fourth >= 0
    /\ Comp.leaders + Comp.core + Comp.special + Comp.fourth = Len(rosterEntries)

(***************************************************************************)
(* C4 amended: the composition counts are non-negative, each is the number *)
(* of entries of its type, and together they sum to the number of entries  *)
(* whose type is one of the build's four types (the roster size when no    *)
(* entry has another type).                                                *)
(***************************************************************************)
C4_CountsSumToKnownTypes ==
    /\ Comp.leaders >= 0 /\ Comp.core >= 0 /\ Comp.special >= 0 /\ Comp.fourth >= 0
    /\ Comp.leaders = NumberOfType({"Leader"})
    /\ Comp.core = NumberOfType({"Core"})
    /\ Comp.special = NumberOfType({"Special"})
    /\ Comp.fourth = NumberOfType({FourthType(variant)})
    /\ Comp.leaders + Comp.core + Comp.special + Comp.fourth = NumberOfType(KnownTypes)
    /\ NumberOfType(KnownTypes) <= Len(rosterEntries)

\* after adds and a removal the roster holds an entry of another type beside
\* counted ones
C4_Witness ==
    /\ lastDeleted # 0
    /\ NumberOfType(KnownTypes) >= 1
    /\ NumberOfType(KnownTypes) < Len(rosterEntries)

(***************************************************************************)
(* C5: for a total other than 0 the severity renderRoster computes is      *)
(* danger exactly when total > limit, warn exactly when total <= limit and *)
(* there is a composition problem, ok exactly when total <= limit and      *)
(* there is none; and that is the severity shown after the roster or the   *)
(* limit changed.                                                          *)
(***************************************************************************)
SeverityTable(dot) ==
    /\ dot = "danger" <=> Total > pointsLimit
    /\ dot = "warn"   <=> (Total <= pointsLimit /\ HasCompProblem)
    /\ dot = "ok"     <=> (Total <= pointsLimit /\ ~HasCompProblem)

C5_SeverityTable ==
    /\ [](Total # 0 => SeverityTable(rosterStatus(rosterEntries, pointsLimit).dot))
    /\ [][((rosterEntries' # rosterEntries \/ pointsLimit' # pointsLimit)
              /\ Total' # 0) => SeverityTable(elStatusDot)']_vars

\* over the limit with a composition problem: danger is shown, not warn
C5_Witness ==
    /\ Total > pointsLimit
    /\ HasCompProblem
    /\ elStatusDot = "danger"
    /\ lastEvent.op = "limitChange"

(***************************************************************************)
(* C6: in build A, addUnit for a Champion of the selected faction while    *)
(* the roster holds floor(limit/250) Champions or more (cap 0 included)    *)
(* creates no entry, leaves the roster and the counter as they are, and    *)
(* sets the status to severity warn.                                       *)
(***************************************************************************)
\* the unit of the selected faction with this name is a Champion
IsChampionOfSelected(unitName) ==
    \E i \in 1..Len(Catalog(variant)) :
        /\ Catalog(variant)[i].name = selectedFactionName
        /\ \E j \in 1..Len(Catalog(variant)[i].units) :
              /\ Catalog(variant)[i].units[j].name = unitName
              /\ Catalog(variant)[i].units[j].type = "Champion"

C6_ChampionAtCapRefused ==
    [][\A unitName \in UnitNames :
          (/\ variant = "A"
           /\ gameData = "loaded"
           /\ lastEvent'.op = "addUnit"
           /\ IsChampionOfSelected(unitName)
           /\ NumberOfType({"Champion"}) >= pointsLimit \div 250
           /\ addUnit(unitName))
          => /\ rosterEntries' = rosterEntries
             /\ nextId' = nextId
             /\ elRosterList' = elRosterList
             /\ elStatusDot' = "warn"]_vars

\* a Champion was refused at cap 0 (limit 200) and another at cap 1
C6_Witness ==
    /\ variant = "A"
    /\ lastEvent.op = "addUnit"
    /\ elStatusDot = "warn"
    /\ \/ pointsLimit = 200 /\ NumberOfType({"Champion"}) = 0
             /\ elStatusText = "Champion cap reached (0 max at 200 pts)."
       \/ pointsLimit = 300 /\ NumberOfType({"Champion"}) = 1
             /\ elStatusText = "Champion cap reached (1 max at 300 pts)."

(***************************************************************************)
(* C7: Clear leaves the roster empty and the counter at 1, so the total is *)
(* 0, every composition count and requiredCore is 0, and the status and    *)
(* the roster panel are those of the start; the add after a Clear gives    *)
(* its entry the id 1, as the first add of a session does.                 *)
(***************************************************************************)
AfterClear ==
    /\ rosterEntries = <<>>
    /\ nextId = 1
    /\ Total = 0
    /\ Comp = [leaders |-> 0, core |-> 0, special |-> 0, fourth |-> 0,
               requiredCore |-> 0]
    /\ IsReady
    /\ elTotalPoints = "0"
    /\ elRosterList = <<NoUnitsRow>>

C7_ClearIsInitial ==
    /\ [](lastEvent.op \in {"init", "clear"} /\ gameData = "loaded" => AfterClear)
    /\ [][(lastEvent.op \in {"init", "clear"} /\ gameData = "loaded"
              /\ Len(rosterEntries') > Len(rosterEntries))
             => /\ Len(rosterEntries') = 1
                /\ rosterEntries'[1].id = 1
                /\ nextId' = 2]_vars

\* Clear has run on a session in which two ids had been assigned and none
\* removed one by one, under another limit than that of the start
C7_Witness ==
    /\ lastEvent.op = "clear"
    /\ maxIssued = 2
    /\ lastDeleted = 0
    /\ pointsLimit # 300

(***************************************************************************)
(* C8 as stated: once deleteEntry has removed an id, that id is not in the *)
(* roster again, whatever runs in between (so that a second deleteEntry of *)
(* it changes nothing).                                                    *)
(***************************************************************************)
C8_RemovedIdStaysAbsent == lastDeleted = 0 \/ lastDeleted \notin Ids(rosterEntries)

(***************************************************************************)
(* C8 amended: deleteEntry(id) with an id no entry has leaves the roster   *)
(* and the counter as they are; after deleteEntry(id) no entry has that    *)
(* id; and an id below the counter that no entry has stays absent until    *)
(* Clear or a faction change resets the counter.  So removing an id twice  *)
(* yields the roster of removing it once when no reset lies in between.    *)
(***************************************************************************)
C8_DeleteAbsentIsNoOp ==
    [][\A id \in 1..(MaxId + 1) :
          /\ (/\ id \notin Ids(rosterEntries)
              /\ lastEvent'.op = "deleteEntry"
              /\ deleteEntry(id))
                => rosterEntries' = rosterEntries /\ nextId' = nextId
          /\ (lastEvent'.op = "deleteEntry" /\ deleteEntry(id))
                => /\ id \notin Ids(rosterEntries')
                   /\ \A e \in EntrySet : e.id # id => e \in EntrySet'
          /\ (/\ id < nextId
              /\ id \notin Ids(rosterEntries)
              /\ lastEvent'.op \notin {"clear", "factionChange"})
                => id \notin Ids(rosterEntries')]_vars

\* deleteEntry has run on a roster that holds every id assigned so far, after
\* nothing was ever removed: it removed nothing
C8_Witness ==
    /\ lastEvent.op = "deleteEntry"
    /\ lastDeleted = 0
    /\ maxIssued = nextId - 1
    /\ Len(rosterEntries) = 2
    /\ Ids(rosterEntries) = {1, 2}

(***************************************************************************)
(* C9: every entry of the roster is a copy of a unit of the faction now    *)
(* selected, and the roster is empty after a faction change.               *)
(***************************************************************************)
UnitsOf(factionName) ==
    UNION {{Catalog(variant)[i].units[j] : j \in 1..Len(Catalog(variant)[i].units)} :
              i \in {k \in 1..Len(Catalog(variant)) : Catalog(variant)[k].name = factionName}}

C9_RosterOfOneFaction ==
    /\ \A e \in EntrySet :
          \E u \in UnitsOf(selectedFactionName) :
              /\ e.name = u.name
              /\ e.points = u.points
              /\ e.type = (IF u.type = "" THEN "Core" ELSE u.type)
    /\ lastEvent.op = "factionChange" => rosterEntries = <<>>

\* units of the second faction were added after entries of the first had been
C9_Witness ==
    /\ selectedFactionName = "Horde"
    /\ Len(rosterEntries) = 1
    /\ maxIssued >= 2
    /\ lastEvent.op = "addUnit"

(***************************************************************************)
(* C10: the export text lists every entry of the roster exactly once,      *)
(* numbered 1..n, by type rank (Leader, Core, Special, the fourth type,    *)
(* any other type last) and within a type by ascending id, which is the    *)
(* order of adding; the roster panel shows the same order.                 *)
(***************************************************************************)
\* the rank of a type, as the claim gives it
RankOf(t) ==
    CASE t = "Leader" -> 0 [] t = "Core" -> 1 [] t = "Special" -> 2
      [] t = FourthType(variant) -> 3 [] OTHER -> 4

\* the place of entry e in the listing: one more than the number of entries
\* that go before it
PlaceOf(e) ==
    1 + Cardinality({x \in EntrySet :
                        \/ RankOf(x.type) < RankOf(e.type)
                        \/ RankOf(x.type) = RankOf(e.type) /\ x.id < e.id})

\* the number of header lines of the export text
HeaderLines == 7

\* text is an export of the roster as it is now
ListsRoster(text) ==
    IF rosterEntries = <<>> THEN Len(text) = HeaderLines + 1
    ELSE /\ Len(text) = HeaderLines + Len(rosterEntries)
         /\ \A e \in EntrySet :
               text[HeaderLines + PlaceOf(e)] =
                   ToString(PlaceOf(e)) \o ". [" \o e.type \o "] " \o e.name
                       \o " -- " \o ToString(e.points)

\* the roster panel shows the roster as it is now
ShowsRoster ==
    IF rosterEntries = <<>> THEN elRosterList = <<NoUnitsRow>>
    ELSE /\ Len(elRosterList) = Len(rosterEntries)
         /\ \A e \in EntrySet :
               /\ elRosterList[PlaceOf(e)].del = e.id
               /\ elRosterList[PlaceOf(e)].title = e.name

C10_ExportOrder ==
    /\ lastEvent.op = "copy" => ListsRoster(pendingWrites[Len(pendingWrites)])
    /\ lastEvent.op = "copiedFallbackSync" => ListsRoster(lastEvent.written)
    /\ gameData = "loaded" => ShowsRoster
    /\ \A i, j \in 1..Len(rosterEntries) :
          i < j => rosterEntries[i].id < rosterEntries[j].id

\* a copy was requested of a roster whose entries were added against the
\* type order, one of them of a type outside the four
C10_Witness ==
    /\ lastEvent.op = "copy"
    /\ Len(rosterEntries) = 2
    /\ RankOf(rosterEntries[1].type) = 4
    /\ RankOf(rosterEntries[2].type) = 0
    /\ Len(pendingWrites) = 1
    /\ pendingWrites[1][HeaderLines + 1] = "1. [Leader] Warlord -- 150"
    /\ pendingWrites[1][HeaderLines + 2] = "2. [Monster] Beast -- 50"

(***************************************************************************)
(* C11: for a roster with two or more Leader entries the status            *)
(* renderRoster computes has severity warn or danger, never ok, and its    *)
(* message holds "Leaders: need exactly 1 (you have N)." with N the number *)
(* of Leader entries, whatever the total and the limit; and that is the    *)
(* status shown after the roster or the limit changed.                     *)
(***************************************************************************)
\* the part of a status message before the composition problems
PointsPart ==
    IF Total > pointsLimit
    THEN "Over by " \o ToString(Total - pointsLimit) \o " pts. "
    ELSE ToString(pointsLimit - Total) \o " pts remaining. "

LeadersText ==
    "Leaders: need exactly 1 (you have " \o ToString(NumberOfType({"Leader"})) \o ")."

\* the problems reported after the Leaders problem
ProblemsAfterLeaders ==
    LET others == Tail(compProblems(Comp, pointsLimit))
    IN  IF Len(others) = 0 THEN "" ELSE " " \o Join(others, " ")

\* the status st is warn or danger and its message holds the Leaders problem
FlagsLeaders(st) ==
    /\ st.dot \in {"warn", "danger"}
    /\ st.dot = "danger" <=> Total > pointsLimit
    /\ st.text = PointsPart \o LeadersText \o ProblemsAfterLeaders

C11_TwoLeadersFlagged ==
    /\ [](NumberOfType({"Leader"}) >= 2 =>
             FlagsLeaders(rosterStatus(rosterEntries, pointsLimit)))
    /\ [][((rosterEntries' # rosterEntries \/ pointsLimit' # pointsLimit)
              /\ NumberOfType({"Leader"})' >= 2)
             => FlagsLeaders([text |-> elStatusText, dot |-> elStatusDot])']_vars

\* a second Leader was added and put the roster over the limit: danger, with
\* the Leaders problem
C11_Witness ==
    /\ lastEvent.op = "addUnit"
    /\ NumberOfType({"Leader"}) = 2
    /\ pointsLimit = 250
    /\ elStatusDot = "danger"
    /\ elStatusText = "Over by 50 pts. Leaders: need exactly 1 (you have 2)."

(***************************************************************************)
(* C12: requiredCore is the number of Special entries in build A, whatever *)
(* the number of Champions, and special + 2 * elite in build B; the        *)
(* problem "Core: need at least <requiredCore> (you have <core>)." is      *)
(* among the problems exactly when core < requiredCore, and then the       *)
(* status shown after the roster or the limit changed reports it.          *)
(***************************************************************************)
RequiredCoreByRule ==
    IF variant = "A" THEN NumberOfType({"Special"})
    ELSE NumberOfType({"Special"}) + 2 * NumberOfType({"Elite"})

CoreText ==
    "Core: need at least " \o ToString(RequiredCoreByRule) \o " (you have "
        \o ToString(NumberOfType({"Core"})) \o ")."

ChampionsText ==
    "Champions: max " \o ToString(pointsLimit \div 250) \o " at "
        \o ToString(pointsLimit) \o " pts (you have "
        \o ToString(NumberOfType({"Champion"})) \o ")."

\* the problems the rules of the build give for the roster and the limit
ExpectedProblems ==
    (IF NumberOfType({"Leader"}) # 1 THEN <<LeadersText>> ELSE <<>>)
    \o (IF NumberOfType({"Core"}) < RequiredCoreByRule THEN <<CoreText>> ELSE <<>>)
    \o (IF variant = "A" /\ NumberOfType({"Champion"}) > pointsLimit \div 250
        THEN <<ChampionsText>> ELSE <<>>)

\* the problems renderRoster collects for the roster and the limit
Problems == compProblems(Comp, pointsLimit)

IsLegalWithin == Total # 0 /\ Total <= pointsLimit /\ ~HasCompProblem

C13_LegalMessagesAsStated ==
    IsLegalWithin =>
        rosterStatus(rosterEntries, pointsLimit).text =
            (IF Total = pointsLimit THEN "Legal: exact points and legal composition."
             ELSE ToString(pointsLimit - Total) \o " pts remaining. Legal so far.")

(***************************************************************************)
(* C13 amended: in that case the severity is ok and the message is         *)
(* "Legal: exact points and legal force composition." when total = limit,  *)
(* in both builds; otherwise it is "<limit - total> pts remaining. Legal   *)
(* so far." in build A and "<limit - total> pts remaining. Force           *)
(* composition legal so far." in build B; and that is the status shown     *)
(* after the roster or the limit changed.                                  *)
(***************************************************************************)
LegalText ==
    IF Total = pointsLimit THEN "Legal: exact points and legal force composition."
    ELSE IF variant = "A"
    THEN ToString(pointsLimit - Total) \o " pts remaining. Legal so far."
    ELSE ToString(pointsLimit - Total) \o " pts remaining. Force composition legal so far."

C13_LegalMessagesOfCode ==
    /\ [](IsLegalWithin =>
             rosterStatus(rosterEntries, pointsLimit) = [text |-> LegalText, dot |-> "ok"])
    /\ [][((rosterEntries' # rosterEntries \/ pointsLimit' # pointsLimit)
              /\ IsLegalWithin')
             => (elStatusText = LegalText /\ elStatusDot = "ok")']_vars

\* build B, one Leader within the limit: the message of app.js is shown
C13_Witness ==
    /\ variant = "B"
    /\ IsLegalWithin
    /\ lastEvent.op = "addUnit"
    /\ pointsLimit = 300
    /\ elStatusText = "150 pts remaining. Force composition legal so far."

(***************************************************************************)
(* C14: a change of the points limit leaves the entries of the roster and  *)
(* the next-id counter as they are, also when the new limit is below the   *)
(* total or its Champion cap is below the number of Champions.             *)
(***************************************************************************)
C14_LimitChangeKeepsRoster ==
    /\ [][\A p \in PointsOptions :
            (lastEvent'.op = "limitChange" /\ limitChange(p))
               => /\ pointsLimit' = p
                  /\ rosterEntries' = rosterEntries
                  /\ nextId' = nextId
                  /\ elRosterList' = elRosterList]_vars
    /\ [][pointsLimit' # pointsLimit
             => rosterEntries' = rosterEntries /\ nextId' = nextId]_vars

\* build A: the limit was lowered below the total and the Champion cap below
\* the number of Champions, and the entries are still there
C14_Witness ==
    /\ variant = "A"
    /\ lastEvent.op = "limitChange"
    /\ Len(rosterEntries) = 2
    /\ Total > pointsLimit
    /\ NumberOfType({"Champion"}) > pointsLimit \div 250

(***************************************************************************)
(* C15: addUnit with a name that is not the name of a unit of the selected *)
(* faction (a unit of another faction, a name in no catalog, or any name   *)
(* when no catalog is loaded and no faction selected) creates nothing: the *)
(* roster, the counter, the status and the panels stay as they are.        *)
(***************************************************************************)
InSelectedCatalog(unitName) ==
    /\ gameData = "loaded"
    /\ \E u \in UnitsOf(selectedFactionName) : u.name = unitName

C15_UnknownUnitIsNoOp ==
    [][\A unitName \in UnitNames :
          (/\ lastEvent'.op = "addUnit"
           /\ ~InSelectedCatalog(unitName)
           /\ addUnit(unitName))
             => UNCHANGED <<rosterEntries, nextId, elStatusText, elStatusDot,
                            elTotalPoints, elRosterSummary, elRosterList,
                            pointsLimit, selectedFactionName>>]_vars

\* build B, second faction selected: an addUnit has run and the roster is
\* empty, so the name it was given was not one of that faction
C15_Witness ==
    /\ variant = "B"
    /\ gameData = "loaded"
    /\ selectedFactionName = "Horde"
    /\ lastEvent.op = "addUnit"
    /\ rosterEntries = <<>>
    /\ nextId = 1
    /\ IsReady

(***************************************************************************)
(* C16: in build A, for a roster with more Champions than floor(limit/250) *)
(* and a total other than 0, the problems hold                             *)
(* "Champions: max <cap> at <limit> pts (you have <n>)." and the status is *)
(* warn or danger, its message reporting the problems; with no more        *)
(* Champions than the cap no Champions problem is among the problems.      *)
(***************************************************************************)
OverChampionCap == NumberOfType({"Champion"}) > pointsLimit \div 250

\* st is warn or danger and its message reports the expected problems
ReportsProblems(st) ==
    /\ st.dot = (IF Total > pointsLimit THEN "danger" ELSE "warn")
    /\ st.text = PointsPart \o Join(ExpectedProblems, " ")

C16_ChampionsOverCapFlagged ==
    /\ [](variant = "A" =>
             /\ Problems = ExpectedProblems
             /\ (\E i \in 1..Len(Problems) : Problems[i] = ChampionsText)
                   <=> OverChampionCap
             /\ (OverChampionCap /\ Total # 0) =>
                   ReportsProblems(rosterStatus(rosterEntries, pointsLimit)))
    /\ [][((rosterEntries' # rosterEntries \/ pointsLimit' # pointsLimit)
              /\ variant = "A" /\ OverChampionCap' /\ Total' # 0)
             => ReportsProblems([text |-> elStatusText, dot |-> elStatusDot])']_vars

\* the limit was lowered to one that allows no Champion while the roster
\* holds one and is over the new limit
C16_Witness ==
    /\ variant = "A"
    /\ lastEvent.op = "limitChange"
    /\ pointsLimit = 200
    /\ NumberOfType({"Champion"}) = 1
    /\ elStatusDot = "danger"
    /\ elStatusText = "Over by 50 pts. Leaders: need exactly 1 (you have 0). Champions: max 0 at 200 pts (you have 1)."

(***************************************************************************)
(* C17: an entry whose type is none of the build's four types is in none   *)
(* of the composition counts and not in requiredCore; its points are in    *)
(* the total, and it has its row in the roster panel and its line in the   *)
(* export text; addUnit creates it as it creates any other entry.          *)
(***************************************************************************)
OtherEntries == {e \in EntrySet : e.type \notin KnownTypes}

\* text has a numbered line for the entry e
HasLineFor(text, e) ==
    \E i \in 1..Len(rosterEntries) :
        text[HeaderLines + i] =
            ToString(i) \o ". [" \o e.type \o "] " \o e.name \o " -- "
                \o ToString(e.points)

C17_OtherTypeIgnoredInCounts ==
    /\ [](/\ Comp.leaders + Comp.core + Comp.special + Comp.fourth
                = Len(rosterEntries) - Cardinality(OtherEntries)
          /\ Comp.leaders = NumberOfType({"Leader"})
          /\ Comp.core = NumberOfType({"Core"})
          /\ Comp.requiredCore = RequiredCoreByRule
          /\ Total = PointsOfSet(EntrySet \ OtherEntries) + PointsOfSet(OtherEntries)
          /\ gameData = "loaded" =>
                \A e \in OtherEntries :
                    \E i \in 1..Len(elRosterList) :
                        /\ elRosterList[i].del = e.id
                        /\ elRosterList[i].title = e.name
          /\ lastEvent.op = "copy" =>
                \A e \in OtherEntries :
                    HasLineFor(pendingWrites[Len(pendingWrites)], e)
          /\ lastEvent.op = "copiedFallbackSync" =>
                \A e \in OtherEntries : HasLineFor(lastEvent.written, e))
    /\ [][\A unitName \in UnitNames :
            (/\ lastEvent'.op = "addUnit"
             /\ \E u \in UnitsOf(selectedFactionName) :
                    u.name = unitName /\ u.type \notin KnownTypes \cup {""}
             /\ addUnit(unitName))
               => /\ Len(rosterEntries') = Len(rosterEntries) + 1
                  /\ rosterEntries'[Len(rosterEntries')].name = unitName
                  /\ rosterEntries'[Len(rosterEntries')].type \notin KnownTypes
                  /\ Comp' = Comp
                  /\ Total' = Total + rosterEntries'[Len(rosterEntries')].points]_vars

\* build B: a copy was requested of a roster of one Core entry and one entry
\* of another type, which the Force Comp line leaves out and the list holds
C17_Witness ==
    /\ variant = "B"
    /\ lastEvent.op = "copy"
    /\ Len(rosterEntries) = 2
    /\ Cardinality(OtherEntries) = 1
    /\ Len(pendingWrites) = 1
    /\ pendingWrites[1][4] = "Total: 200"
    /\ pendingWrites[1][6] = "Force Comp: Leaders 0/1 | Core 1/0 (Special 0, Elite 0)"
    /\ pendingWrites[1][HeaderLines + 2] = "2. [Monster] Beast -- 50"

(***************************************************************************)
(* C18 as stated: right after every add, delete, clear, limit change and   *)
(* faction change (on a loaded page) the total and the status shown are    *)
(* those computed from the roster and the limit as the event left them.    *)
(***************************************************************************)
\* the total and the status shown are those of the roster and the limit
ShowsComputed ==
    /\ elTotalPoints = ToString(Total)
    /\ elRosterSummary = ToString(Total) \o " / " \o ToString(pointsLimit)
    /\ [text |-> elStatusText, dot |-> elStatusDot]
           = rosterStatus(rosterEntries, pointsLimit)

C18_ShownAfterEveryEvent ==
    [][(/\ gameData = "loaded"
        /\ lastEvent'.op \in {"addUnit", "deleteEntry", "clear", "limitChange",
                               "factionChange"})
         => ShowsComputed']_vars

(***************************************************************************)
(* C18 amended: right after every add that creates an entry and every      *)
(* delete, clear, limit change and faction change the total and the status *)
(* shown are those computed from the roster and the limit as the event     *)
(* left them.  An add that creates nothing does not compute them again: it *)
(* leaves the total shown as it is, and the status too unless it is build  *)
(* A refusing a Champion at the cap, which shows "Champion cap reached     *)
(* (<cap> max at <limit> pts)." with severity warn.                        *)
(***************************************************************************)
C18_ShownAfterEveryMutation ==
    [][/\ (\/ rosterEntries' # rosterEntries
           \/ pointsLimit' # pointsLimit
           \/ lastEvent'.op \in {"deleteEntry", "clear", "limitChange",
                                  "factionChange"})
          => ShowsComputed'
       /\ (lastEvent'.op = "addUnit" /\ rosterEntries' = rosterEntries)
          => /\ elTotalPoints' = elTotalPoints
             /\ elRosterSummary' = elRosterSummary
             /\ \/ elStatusText' = elStatusText /\ elStatusDot' = elStatusDot
                \/ /\ variant = "A"
                   /\ NumberOfType({"Champion"}) >= pointsLimit \div 250
                   /\ elStatusDot' = "warn"
                   /\ elStatusText' =
                         "Champion cap reached (" \o ToString(pointsLimit \div 250)
                             \o " max at " \o ToString(pointsLimit) \o " pts)."]_vars

\* the limit was lowered below the total of a legal roster: the summary and
\* the status shown are those of the new limit
C18_Witness ==
    /\ lastEvent.op = "limitChange"
    /\ pointsLimit = 250
    /\ elTotalPoints = "300"
    /\ elRosterSummary = "300 / 250"
    /\ elStatusText = "Over by 50 pts."
    /\ elStatusDot = "danger"

(***************************************************************************)
(* C19: every copy request ends with the status ok and a message           *)
(* "Copied roster to clipboard ...": at once where the write throws        *)
(* before the await, and when the promise settles otherwise, resolved or   *)
(* rejected (fallback); and no step of a copy changes the roster, the      *)
(* counter or the limit.                                                   *)
(***************************************************************************)
CopySteps == {"copy", "copied", "copiedFallback", "copiedFallbackSync"}

CopyEnds == {"copied", "copiedFallback", "copiedFallbackSync"}

ShowsCopied ==
    /\ elStatusDot = "ok"
    /\ elStatusText \in {"Copied roster to clipboard.",
                         "Copied roster to clipboard (fallback)."}

C19_CopyEndsInSuccess ==
    /\ (Len(pendingWrites) > 0) ~> (lastEvent.op \in CopyEnds /\ ShowsCopied)
    /\ [][copiesRequested' # copiesRequested
             => (Len(pendingWrites') > 0 \/ lastEvent'.op \in CopyEnds)]_vars
    /\ [][lastEvent'.op \in CopyEnds => ShowsCopied']_vars
    /\ [][lastEvent'.op \in CopySteps
             => UNCHANGED <<rosterEntries, nextId, pointsLimit>>]_vars

\* the write of a copy of a roster of two entries was rejected: the fallback
\* status is shown and the roster is as it was
C19_Witness ==
    /\ lastEvent.op = "copiedFallback"
    /\ elStatusText = "Copied roster to clipboard (fallback)."
    /\ elStatusDot = "ok"
    /\ Len(rosterEntries) = 2
    /\ nextId = 3
    /\ pendingWrites = <<>>

(***************************************************************************)
(* C20: in every state the ids of the entries of the roster are pairwise   *)
(* distinct and each is less than the next-id counter, so that             *)
(* deleteEntry(id) removes one entry at most and each Delete button of the *)
(* roster panel stands for exactly one entry.                              *)
(***************************************************************************)
C20_IdsDistinctBelowCounter ==
    /\ [](/\ \A i, j \in 1..Len(rosterEntries) :
                i # j => rosterEntries[i].id # rosterEntries[j].id
          /\ \A i \in 1..Len(rosterEntries) :
                rosterEntries[i].id >= 1 /\ rosterEntries[i].id < nextId
          /\ (gameData = "loaded" /\ rosterEntries # <<>>) =>
                \A r \in 1..Len(elRosterList) :
                    Cardinality({i \in 1..Len(rosterEntries) :
                                    rosterEntries[i].id = elRosterList[r].del}) = 1)
    /\ [][lastEvent'.op = "deleteEntry"
             => Len(rosterEntries') >= Len(rosterEntries) - 1]_vars

\* two ids were assigned and the entry of the first was removed
C20_Witness ==
    /\ lastEvent.op = "deleteEntry"
    /\ lastDeleted = 1
    /\ maxIssued = 2
    /\ Ids(rosterEntries) = {2}
    /\ nextId = 3
    /\ Len(elRosterList) = 1
    /\ elRosterList[1].del = 2

(***************************************************************************)
(* C21: in build A the roster starts with no more Champions than           *)
(* floor(limit/250), and a step leads from a roster within the cap to one  *)
(* above it only if it is a limit change that lowers the limit and the     *)
(* cap; so in a run in which the limit is never lowered the number of      *)
(* Champions is at most the cap in every state.                            *)
(***************************************************************************)
C21_OverCapOnlyByLoweredLimit ==
    /\ (variant = "A" => ~OverChampionCap)
    /\ [][(variant = "A" /\ ~OverChampionCap /\ OverChampionCap')
             => /\ lastEvent'.op = "limitChange"
                /\ pointsLimit' < pointsLimit
                /\ pointsLimit' \div 250 < pointsLimit \div 250
                /\ rosterEntries' = rosterEntries]_vars
    /\ [][(variant = "A" /\ ~OverChampionCap /\ pointsLimit' >= pointsLimit)
             => ~OverChampionCap']_vars

\* a Champion was added at a limit that allows one, and the limit was then
\* lowered to one that allows none
C21_Witness ==
    /\ variant = "A"
    /\ lastEvent.op = "limitChange"
    /\ Len(rosterEntries) = 1
    /\ OverChampionCap
    /\ elStatusDot = "warn"
    /\ elStatusText = "100 pts remaining. Leaders: need exactly 1 (you have 0). Champions: max 0 at 200 pts (you have 1)."

(***************************************************************************)
(* C22: the text a copy request hands to the clipboard gives the faction,  *)
(* the limit, the total and the entries as they are when the button is     *)
(* clicked; add, delete, clear, limit and faction events that run while    *)
(* the write is pending leave that text as it is; the text written when    *)
(* the write settles is that text, and the status then shown is that of    *)
(* the copy, whatever those events had shown.                              *)
(***************************************************************************)
\* text gives the faction, limit, total and entries of the state as it is
ReflectsState(text) ==
    /\ text[1] = "Fall: A Game of Endings -- Roster"
    /\ text[2] = "Faction: " \o selectedFactionName
    /\ text[3] = "Limit: " \o ToString(pointsLimit)
    /\ text[4] = "Total: " \o ToString(PointsOfSet(EntrySet))
    /\ ListsRoster(text)

C22_CopyIsSnapshot ==
    /\ [][lastEvent'.op = "copy" =>
             /\ Len(pendingWrites') = Len(pendingWrites) + 1
             /\ ReflectsState(pendingWrites'[Len(pendingWrites')])
             /\ SubSeq(pendingWrites', 1, Len(pendingWrites)) = pendingWrites]_vars
    /\ [][lastEvent'.op = "copiedFallbackSync" => ReflectsState(lastEvent'.written)]_vars
    /\ [][lastEvent'.op \notin CopySteps => pendingWrites' = pendingWrites]_vars
    /\ [][lastEvent'.op \in {"copied", "copiedFallback"} =>
             /\ \E i \in 1..Len(pendingWrites) :
                    /\ lastEvent'.written = pendingWrites[i]
                    /\ pendingWrites' = RemoveAt(pendingWrites, i)
             /\ ShowsCopied'
             /\ UNCHANGED <<elTotalPoints, elRosterSummary, elRosterList>>]_vars

\* a copy of a roster of one Leader was requested, the roster was cleared
\* and the limit changed while the write was pending, and the write then
\* resolved: the text written is that of the request, the status that of
\* the copy
C22_Witness ==
    /\ lastEvent.op = "copied"
    /\ rosterEntries = <<>>
    /\ pointsLimit = 200
    /\ lastEvent.written[3] = "Limit: 300"
    /\ lastEvent.written[4] = "Total: 150"
    /\ lastEvent.written[HeaderLines + 1] = "1. [Leader] Warlord -- 150"
    /\ elRosterSummary = "0 / 200"
    /\ elStatusText = "Copied roster to clipboard."

====
